---- MODULE Spec2Model ----
(***************************************************************************)
(* A model of the LHA header parser of src/header/parser.rs:               *)
(*   - LhaHeader::read as a state machine over a byte source, one action   *)
(*     per step of the function (specification Spec);                      *)
(*   - ExtraHeaderIter over the retained extra-headers buffer of an        *)
(*     accepted header (also Spec);                                        *)
(*   - parse_str_nilterm and parse_pathname as operators, applied to       *)
(*     bounded byte strings (specification SpecSan).                       *)
(* Bytes are integers 0..255, byte strings are sequences of bytes, and a   *)
(* Rust String is the sequence of its (ASCII) bytes.  Lengths are TLC      *)
(* integers (the byte sources the model draws keep every length field      *)
(* below 2^31); the 64 bit sizes are kept as 16-bit limbs.                 *)
(***************************************************************************)
EXTENDS Integers, Sequences, FiniteSets, TLC

\* ------------------------------------------------------------------------
\* Bounds of the model
\* ------------------------------------------------------------------------
\* longest chain of extra records a drawn byte source carries
MaxRecs == 2
\* longest file name a drawn level 0/1 header carries
MaxName == 1
\* longest extended area a drawn level 0/1 header carries
MaxExt == 2
\* longest byte string handed to the sanitizers
MaxStr == 4

\* ------------------------------------------------------------------------
\* Identifiers of the extra headers the parser looks at (mod ext)
\* ------------------------------------------------------------------------
EXT_HEADER_COMMON == 0
EXT_HEADER_FILENAME == 1
EXT_HEADER_MSDOS_ATTRS == 64
EXT_HEADER_MSDOS_SIZE == 66
EXT_HEADER_EXT_ATTRS == 127

\* Option::None of an Option<u16>
None == -1

\* ------------------------------------------------------------------------
\* Sequence helpers
\* ------------------------------------------------------------------------
RECURSIVE SeqSum(_)
SeqSum(s) == IF s = <<>> THEN 0 ELSE Head(s) + SeqSum(Tail(s))

\* s[from+1 .. ] as Rust's &s[from..]
Drop(s, from) == SubSeq(s, from + 1, Len(s))

\* s[..n]
Take(s, n) == SubSeq(s, 1, n)

\* n zero bytes
Zeros(n) == [i \in 1..n |-> 0]

\* ------------------------------------------------------------------------
\* Little-endian integers
\* ------------------------------------------------------------------------
RECURSIVE LeValue(_)
\* from_le_bytes: the value of a little-endian byte string
LeValue(bytes) ==
    IF bytes = <<>> THEN 0 ELSE Head(bytes) + 256 * LeValue(Tail(bytes))

\* fn read_u16(slice) -> Option<u16>
read_u16(slice) ==
    IF Len(slice) = 2 THEN LeValue(slice) ELSE None

\* fn read_u32(slice) -> Option<u32>
read_u32(slice) ==
    IF Len(slice) = 4 THEN LeValue(slice) ELSE None

\* A u64 is kept as its four 16-bit limbs, least significant first, so that
\* every value of the type has a representation.
\* fn read_u64(slice) -> Option<u64>
read_u64(slice) ==
    IF Len(slice) = 8
    THEN [i \in 1..4 |-> slice[2 * i - 1] + 256 * slice[2 * i]]
    ELSE None

\* u32::from_le_bytes(bytes) as u64
U64FromLe32(bytes) == read_u64(bytes \o <<0, 0, 0, 0>>)

\* n as u64, for n below 2^31
U64(n) == <<n % 65536, n \div 65536, 0, 0>>

\* a < b on u64
U64Less(a, b) ==
    \E i \in 1..4 : a[i] < b[i] /\ \A j \in (i + 1)..4 : a[j] = b[j]

RECURSIVE U64SubFrom(_, _, _, _)
\* limbs i.. of a - b with a borrow coming in
U64SubFrom(a, b, i, borrow) ==
    IF i > 4 THEN <<>>
    ELSE LET d == a[i] - b[i] - borrow
         IN  <<d % 65536>> \o U64SubFrom(a, b, i + 1, IF d < 0 THEN 1 ELSE 0)

\* a - b on u64, for a >= b
U64Sub(a, b) == U64SubFrom(a, b, 1, 0)

\* wrapping_csum returning the sum of data alone: a slip
wrapping_csum_mut(init, data) == SeqSum(data) % 256

\* fn wrapping_csum(init, data): the 8-bit wrapping sum
wrapping_csum(init, data) == (SeqSum(data) + init) % 256

\* ------------------------------------------------------------------------
\* CRC-16 (crate::crc::Crc16, the CRC-16/ARC of the LHA format: reflected
\* polynomial 0xA001, initial value 0).  The digest's state is kept as the
\* sequence of bytes digested; sum16 folds it.
\* ------------------------------------------------------------------------
RECURSIVE Xor8(_, _, _)
\* bitwise xor of the low n bits of a and b
Xor8(a, b, n) ==
    IF n = 0 THEN 0
    ELSE ((a + b) % 2) + 2 * Xor8(a \div 2, b \div 2, n - 1)

\* x xor 0xA001 for x < 2^15
XorPoly(x) ==
    x + 32768
      + (IF (x \div 8192) % 2 = 1 THEN -8192 ELSE 8192)
      + (IF x % 2 = 1 THEN -1 ELSE 1)

RECURSIVE CrcShift(_, _)
\* n rounds of the reflected shift register
CrcShift(c, n) ==
    IF n = 0 THEN c
    ELSE CrcShift(IF c % 2 = 1 THEN XorPoly(c \div 2) ELSE c \div 2, n - 1)

\* one byte into the register
CrcByte(c, b) ==
    CrcShift((c \div 256) * 256 + Xor8(c % 256, b, 8), 8)

RECURSIVE CrcFold(_, _)
CrcFold(c, bytes) ==
    IF bytes = <<>> THEN c
    ELSE LET next == CrcByte(c, Head(bytes))
         IN  IF next >= 0 THEN CrcFold(next, Tail(bytes)) ELSE 0

\* Crc16::sum16 of a digest that was fed `bytes`
sum16(bytes) == CrcFold(0, bytes)

\* ------------------------------------------------------------------------
\* State
\* ------------------------------------------------------------------------
VARIABLES
    input,            \* the content of the byte source handed to read
    parser,           \* struct Parser: pos (bytes pulled from rd), crc, csum, len
    pc,               \* the step of LhaHeader::read about to run
    result,           \* "running", "absent" (Ok(None)), "ok" (Ok(Some)), or the error
    header_len,       \* byte 0
    csum,             \* byte 1
    raw_header,       \* LhaRawBaseHeader
    filename,
    file_crc,
    os_type,
    extended_area,
    long_header_len,
    first_header_len,
    extra_headers,    \* the retained buffer of extra records
    msdos_attrs,
    original_size,
    compressed_size,
    header_crc,       \* Option<u16>
    extra_header_len, \* length of the record the walker reads next
    walked,           \* lengths of the records the walker has read, in order
    iter,             \* ExtraHeaderIter: data, header_length, header_len32
    yielded,          \* the slices the iterator has yielded, in order
    iter_state,       \* "none", "iterating", "exhausted" or "panic"
    san_data,         \* the byte string handed to a sanitizer
    san_nilterm,
    san_ignore_sep,
    san_pc,           \* "init", "str" (parse_str_nilterm ran) or "path"
    san_str,          \* the String parse_str_nilterm returned
    san_path          \* the PathBuf parse_pathname filled

base_locals == <<header_len, csum, raw_header>>
mid_locals == <<filename, file_crc, os_type, extended_area>>
len_locals == <<long_header_len, first_header_len>>
walk_locals == <<extra_headers, msdos_attrs, original_size, compressed_size,
                 header_crc, extra_header_len, walked>>
iter_vars == <<iter, yielded, iter_state>>
san_vars == <<san_data, san_nilterm, san_ignore_sep, san_pc, san_str, san_path>>
read_vars == <<input, parser, pc, result, base_locals, mid_locals, len_locals,
               walk_locals>>
vars == <<read_vars, iter_vars, san_vars>>

\* ------------------------------------------------------------------------
\* struct Parser
\* ------------------------------------------------------------------------
\* Parser { rd, crc: Crc16::default(), csum: Wrapping(0), len: 0 }
NewParser == [pos |-> 0, crc |-> <<>>, csum |-> 0, len |-> 0]

\* the source still holds n bytes
CanRead(p, n) == p.pos + n <= Len(input)

\* the next n bytes of the source
Bytes(p, n) == SubSeq(input, p.pos + 1, p.pos + n)

\* a short read: the source is drained and the read fails
Drained(p) == [p EXCEPT !.pos = Len(input)]

\* fn update_checksums_no_wrapping_sum(&mut self, buf)
update_checksums_no_wrapping_sum(p, buf) ==
    [p EXCEPT !.len = @ + Len(buf), !.crc = @ \o buf]

\* fn update_checksums(&mut self, buf)
update_checksums(p, buf) ==
    [update_checksums_no_wrapping_sum(p, buf) EXCEPT !.csum = wrapping_csum(@, buf)]

\* fn read_exact(&mut self, buf), buf of n bytes, on a source that holds them
\* (read_u8, read_u16, read_u32 and read_limit account the same way)
read_exact(p, n) ==
    update_checksums([p EXCEPT !.pos = @ + n], Bytes(p, n))

\* fn read_limit_no_checksums(&mut self, limit, buf): the bytes go to buf only
read_limit_no_checksums(p, n) == [p EXCEPT !.pos = @ + n]

\* fn read_u8_or_none(&mut self): one byte, into the digest but not the sum
read_u8_or_none(p) ==
    update_checksums_no_wrapping_sum([p EXCEPT !.pos = @ + 1], Bytes(p, 1))

\* ------------------------------------------------------------------------
\* LhaRawBaseHeader: 19 packed bytes
\* ------------------------------------------------------------------------
RawBaseLen == 19

RawBaseHeader(b) ==
    [compression     |-> SubSeq(b, 1, 5),
     compressed_size |-> SubSeq(b, 6, 9),
     original_size   |-> SubSeq(b, 10, 13),
     last_modified   |-> SubSeq(b, 14, 17),
     msdos_attrs     |-> b[18],
     lha_level       |-> b[19]]

\* LhaRawBaseHeader::default()
DefaultRawHeader == RawBaseHeader(Zeros(RawBaseLen))

\* ------------------------------------------------------------------------
\* LhaHeader::read, step by step
\* ------------------------------------------------------------------------
\* return Err(..) / return Ok(None)
Return(r) == pc' = "done" /\ result' = r

\* Some(0)|None => return Ok(None) decided on the second byte too: a slip
IsEndMarker_late(p) == ~CanRead(p, 2) \/ Bytes(p, 1)[1] = 0

\* Some(0)|None => return Ok(None): the source is at its end or its next byte is 0
IsEndMarker(p) == ~CanRead(p, 1) \/ Bytes(p, 1)[1] = 0

\* let header_len = match parser.read_u8_or_none()? { .. }
ReadHeaderLen ==
    /\ pc = "header_len"
    /\ parser' = IF CanRead(parser, 1) THEN read_u8_or_none(parser) ELSE parser
    /\ IF IsEndMarker(parser)
       THEN Return("absent") /\ UNCHANGED header_len
       ELSE pc' = "csum" /\ header_len' = Bytes(parser, 1)[1] /\ UNCHANGED result
    /\ UNCHANGED <<input, csum, raw_header, mid_locals, len_locals, walk_locals,
                   iter_vars, san_vars>>

\* let csum = parser.read_u8()?; parser.csum = Wrapping(0)
ReadCsum ==
    /\ pc = "csum"
    /\ IF ~CanRead(parser, 1)
       THEN /\ parser' = Drained(parser)
            /\ Return("failed to fill whole buffer")
            /\ UNCHANGED csum
       ELSE /\ parser' = [read_exact(parser, 1) EXCEPT !.csum = 0]
            /\ csum' = Bytes(parser, 1)[1]
            /\ pc' = "base"
            /\ UNCHANGED result
    /\ UNCHANGED <<input, header_len, raw_header, mid_locals, len_locals,
                   walk_locals, iter_vars, san_vars>>

\* parser.read_exact(struct_slice_mut(&mut raw_header))?; the level check
ReadBase ==
    /\ pc = "base"
    /\ IF ~CanRead(parser, RawBaseLen)
       THEN /\ parser' = Drained(parser)
            /\ Return("failed to fill whole buffer")
            /\ UNCHANGED raw_header
       ELSE /\ parser' = read_exact(parser, RawBaseLen)
            /\ raw_header' = RawBaseHeader(Bytes(parser, RawBaseLen))
            /\ IF raw_header'.lha_level > 3
               THEN Return("unknown header level")
               ELSE pc' = "filename" /\ UNCHANGED result
    /\ UNCHANGED <<input, header_len, csum, mid_locals, len_locals, walk_locals,
                   iter_vars, san_vars>>

\* read filename if level 0 or 1
ReadFilename ==
    /\ pc = "filename"
    /\ IF raw_header.lha_level >= 2
       THEN /\ filename' = <<>>
            /\ pc' = "file_crc"
            /\ UNCHANGED <<parser, result>>
       ELSE IF ~CanRead(parser, 1)
       THEN /\ parser' = Drained(parser)
            /\ Return("failed to fill whole buffer")
            /\ UNCHANGED filename
       ELSE LET p1 == read_exact(parser, 1)
                filename_len == Bytes(parser, 1)[1]
            IN  IF header_len < p1.len + filename_len
                THEN /\ parser' = p1
                     /\ Return("wrong header size")
                     /\ UNCHANGED filename
                ELSE IF ~CanRead(p1, filename_len)
                THEN /\ parser' = Drained(p1)
                     /\ Return("file is too short")
                     /\ UNCHANGED filename
                ELSE /\ parser' = read_exact(p1, filename_len)
                     /\ filename' = Bytes(p1, filename_len)
                     /\ pc' = "file_crc"
                     /\ UNCHANGED result
    /\ UNCHANGED <<input, base_locals, file_crc, os_type, extended_area,
                   len_locals, walk_locals, iter_vars, san_vars>>

\* file CRC-16 (read_u16), then OS-TYPE above level 0 (read_u8): two reads, the
\* first accounted for when the second fails
ReadFileCrc ==
    /\ pc = "file_crc"
    /\ IF ~CanRead(parser, 2)
       THEN /\ parser' = Drained(parser)
            /\ Return("failed to fill whole buffer")
            /\ UNCHANGED <<file_crc, os_type>>
       ELSE LET p1 == read_exact(parser, 2) IN
            /\ file_crc' = LeValue(Bytes(parser, 2))
            /\ IF raw_header.lha_level = 0
               THEN /\ parser' = p1
                    /\ pc' = "extended_area"
                    /\ UNCHANGED <<result, os_type>>
               ELSE IF ~CanRead(p1, 1)
               THEN /\ parser' = Drained(p1)
                    /\ Return("failed to fill whole buffer")
                    /\ UNCHANGED os_type
               ELSE /\ parser' = read_exact(p1, 1)
                    /\ os_type' = Bytes(p1, 1)[1]
                    /\ pc' = "extended_area"
                    /\ UNCHANGED result
    /\ UNCHANGED <<input, base_locals, filename, extended_area, len_locals,
                   walk_locals, iter_vars, san_vars>>

\* the level 0 OS byte read without being taken off extended_len: a slip
extended_rest_mut(extended_len, level) == extended_len

\* if extended_len != 0 && level == 0 { extended_len -= 1; os_type = .. }
extended_rest(extended_len, level) ==
    IF extended_len # 0 /\ level = 0 THEN extended_len - 1 ELSE extended_len

\* let mut min_len = parser.len; if level == 0 { min_len -= 2 }
min_len(p_len, level) == IF level = 0 THEN p_len - 2 ELSE p_len

\* extended area, only 0 and 1 level
ReadExtendedArea ==
    /\ pc = "extended_area"
    /\ IF raw_header.lha_level >= 2
       THEN /\ pc' = "lengths"
            /\ UNCHANGED <<parser, result, os_type, extended_area>>
       ELSE IF header_len < min_len(parser.len, raw_header.lha_level)
       THEN /\ Return("wrong header size")
            /\ UNCHANGED <<parser, os_type, extended_area>>
       ELSE LET extended_len == header_len - min_len(parser.len, raw_header.lha_level)
                os_here == extended_len # 0 /\ raw_header.lha_level = 0
                p1 == IF os_here THEN read_exact(parser, 1) ELSE parser
                rest == extended_rest(extended_len, raw_header.lha_level)
            IN  IF os_here /\ ~CanRead(parser, 1)
                THEN /\ parser' = Drained(parser)
                     /\ Return("failed to fill whole buffer")
                     /\ UNCHANGED <<os_type, extended_area>>
                ELSE IF ~CanRead(p1, rest)
                THEN /\ parser' = Drained(p1)
                     /\ Return("file is too short")
                     /\ os_type' = IF os_here THEN Bytes(parser, 1)[1] ELSE os_type
                     /\ UNCHANGED extended_area
                ELSE /\ parser' = read_exact(p1, rest)
                     /\ os_type' = IF os_here THEN Bytes(parser, 1)[1] ELSE os_type
                     /\ extended_area' = Bytes(p1, rest)
                     /\ pc' = "lengths"
                     /\ UNCHANGED result
    /\ UNCHANGED <<input, base_locals, filename, file_crc, len_locals,
                   walk_locals, iter_vars, san_vars>>

\* establish the first extra header length and the long header length: one
\* read_u16 for levels 1 and 2, two read_u32 for level 3, the first accounted
\* for when the second fails
EstablishLengths ==
    /\ pc = "lengths"
    /\ LET level == raw_header.lha_level
           w == IF level = 3 THEN 4 ELSE 2
       IN  IF level = 0
           THEN /\ pc' = "validate"
                /\ UNCHANGED <<parser, result, len_locals>>
           ELSE IF level \in {1, 2}
           THEN /\ long_header_len' = IF level = 2
                                      THEN LeValue(<<header_len, csum>>) ELSE 0
                /\ IF ~CanRead(parser, w)
                   THEN /\ parser' = Drained(parser)
                        /\ Return("failed to fill whole buffer")
                        /\ UNCHANGED first_header_len
                   ELSE /\ parser' = read_exact(parser, w)
                        /\ first_header_len' = LeValue(Bytes(parser, w))
                        /\ pc' = "validate"
                        /\ UNCHANGED result
           ELSE IF ~CanRead(parser, w)
           THEN /\ parser' = Drained(parser)
                /\ Return("failed to fill whole buffer")
                /\ UNCHANGED len_locals
           ELSE LET p1 == read_exact(parser, w) IN
                /\ long_header_len' = LeValue(Bytes(parser, w))
                /\ IF ~CanRead(p1, w)
                   THEN /\ parser' = Drained(p1)
                        /\ Return("failed to fill whole buffer")
                        /\ UNCHANGED first_header_len
                   ELSE /\ parser' = read_exact(p1, w)
                        /\ first_header_len' = LeValue(Bytes(p1, w))
                        /\ IF header_len # 4 \/ csum # 0
                           THEN Return("invalid header")
                           ELSE pc' = "validate" /\ UNCHANGED result
    /\ UNCHANGED <<input, base_locals, mid_locals, walk_locals, iter_vars, san_vars>>

\* validate level 0 and 1 header checksum, or the long header size; then the
\* locals the walk starts from
ValidateBase ==
    /\ pc = "validate"
    /\ IF raw_header.lha_level < 2 /\ csum # parser.csum
       THEN /\ Return("invalid header level checksum")
            /\ UNCHANGED walk_locals
       ELSE IF raw_header.lha_level >= 2
               /\ long_header_len < parser.len + first_header_len
       THEN /\ Return("wrong header size")
            /\ UNCHANGED walk_locals
       ELSE /\ msdos_attrs' = raw_header.msdos_attrs
            /\ original_size' = U64FromLe32(raw_header.original_size)
            /\ compressed_size' = U64FromLe32(raw_header.compressed_size)
            /\ header_crc' = None
            /\ extra_header_len' = first_header_len
            /\ pc' = "walk"
            /\ UNCHANGED <<result, extra_headers, walked>>
    /\ UNCHANGED <<input, parser, base_locals, mid_locals, len_locals, iter_vars,
                   san_vars>>

\* ------------------------------------------------------------------------
\* The extra-header walk
\* ------------------------------------------------------------------------
\* let min_header_len = if raw_header.lha_level == 3 { 5 } else { 3 }
min_header_len(level) == IF level = 3 THEN 5 ELSE 3

\* [EXT_HEADER_COMMON, data @ ..]
IsCommon(header) == header[1] = EXT_HEADER_COMMON

\* data.get_mut(0..2) of the Common arm is Some
HasCrcField(header) == Len(Drop(header, 1)) >= 2

\* header_crc = read_u16(crc)
CommonCrc(header) == read_u16(SubSeq(header, 2, 3))

\* the Common arm forgetting to clear the field: a slip
ClearCrc_kept(header) == header

\* for p in crc.iter_mut() { *p = 0 }
ClearCrc(header) ==
    [i \in 1..Len(header) |-> IF i \in {2, 3} THEN 0 ELSE header[i]]

\* the record as it stays in extra_headers and goes to the digest
Edited(header) ==
    IF IsCommon(header) /\ HasCrcField(header) THEN ClearCrc(header) ELSE header

\* [EXT_HEADER_MSDOS_ATTRS, data @ ..]|[EXT_HEADER_EXT_ATTRS, data @ ..] if data.len() >= 2
IsAttrs(header) ==
    /\ header[1] \in {EXT_HEADER_MSDOS_ATTRS, EXT_HEADER_EXT_ATTRS}
    /\ Len(Drop(header, 1)) >= 2

\* [EXT_HEADER_MSDOS_SIZE, data @ ..] if raw_header.lha_level >= 2 && data.len() >= 16
IsSize(header, level) ==
    /\ header[1] = EXT_HEADER_MSDOS_SIZE
    /\ level >= 2
    /\ Len(Drop(header, 1)) >= 16

\* extra_header_len = read_u32/read_u16 of the tail of the (edited) record;
\* raw is the record as the source held it
next_header_len(header, raw, level) ==
    IF level = 3
    THEN read_u32(Drop(header, Len(header) - 4))
    ELSE read_u16(Drop(header, Len(header) - 2))

\* the skip size check made against the length of one record only, not of the
\* retained buffer with it: a slip
FramingFails_mut ==
    IF long_header_len # 0
    THEN long_header_len < parser.len + extra_header_len - 2
    ELSE U64Less(compressed_size, U64(extra_header_len))

\* the framing check of one iteration fails: long header length (level 2, 3),
\* otherwise skip size (level 1)
FramingFails ==
    IF long_header_len # 0
    THEN long_header_len < parser.len + extra_header_len - 2
    ELSE U64Less(compressed_size, U64(Len(extra_headers) + extra_header_len))

\* one iteration of: while extra_header_len != 0 { .. }
WalkExtra ==
    /\ pc = "walk"
    /\ extra_header_len # 0
    /\ LET level == raw_header.lha_level
           raw == Bytes(parser, extra_header_len)
           header == Edited(raw)
       IN  IF extra_header_len < min_header_len(level)
           THEN /\ Return("wrong extra header size")
                /\ UNCHANGED <<parser, walk_locals>>
           ELSE IF FramingFails
           THEN /\ Return("wrong header size")
                /\ UNCHANGED <<parser, walk_locals>>
           ELSE IF ~CanRead(parser, extra_header_len)
           THEN /\ parser' = Drained(parser)
                /\ Return("file is too short")
                /\ extra_headers' = extra_headers \o Drop(input, parser.pos)
                /\ UNCHANGED <<msdos_attrs, original_size, compressed_size,
                               header_crc, extra_header_len, walked>>
           ELSE IF IsCommon(raw) /\ header_crc # None
           THEN /\ parser' = read_limit_no_checksums(parser, extra_header_len)
                /\ Return("double common CRC-16 header")
                /\ extra_headers' = extra_headers \o raw
                /\ UNCHANGED <<msdos_attrs, original_size, compressed_size,
                               header_crc, extra_header_len, walked>>
           ELSE /\ parser' = update_checksums_no_wrapping_sum(
                                 read_limit_no_checksums(parser, extra_header_len),
                                 header)
                /\ extra_headers' = extra_headers \o header
                /\ header_crc' = IF IsCommon(raw) /\ HasCrcField(raw)
                                 THEN CommonCrc(raw) ELSE header_crc
                /\ msdos_attrs' = IF ~IsCommon(raw) /\ IsAttrs(raw)
                                  THEN LeValue(SubSeq(raw, 2, 3)) ELSE msdos_attrs
                /\ compressed_size' = IF IsSize(raw, level)
                                      THEN read_u64(SubSeq(raw, 2, 9))
                                      ELSE compressed_size
                /\ original_size' = IF IsSize(raw, level)
                                    THEN read_u64(SubSeq(raw, 10, 17))
                                    ELSE original_size
                /\ extra_header_len' = next_header_len(header, raw, level)
                /\ walked' = Append(walked, extra_header_len)
                /\ UNCHANGED <<pc, result>>
    /\ UNCHANGED <<input, base_locals, mid_locals, len_locals, iter_vars, san_vars>>

\* the accepted relation with the Osk tolerance turned the other way: a slip
LongLenRejected_mut(level, long, p_len) ==
    level = 2 /\ long # p_len + 2

\* else if raw_header.lha_level == 2 && long_header_len + 2 != parser.len as u32
LongLenRejected(level, long, p_len) ==
    level = 2 /\ long + 2 # p_len

\* validate long header length (the loop has ended)
ValidateLongLen ==
    /\ pc = "walk"
    /\ extra_header_len = 0
    /\ LET level == raw_header.lha_level
       IN  IF long_header_len # 0 /\ long_header_len # parser.len
           THEN IF level = 2 /\ long_header_len = parser.len + 1
                THEN \* read padding byte
                     IF ~CanRead(parser, 1)
                     THEN /\ parser' = Drained(parser)
                          /\ Return("failed to fill whole buffer")
                     ELSE /\ parser' = read_exact(parser, 1)
                          /\ pc' = "crc"
                          /\ UNCHANGED result
                ELSE IF LongLenRejected(level, long_header_len, parser.len)
                THEN /\ Return("wrong length of headers")
                     /\ UNCHANGED parser
                ELSE /\ pc' = "crc"
                     /\ UNCHANGED <<parser, result>>
           ELSE /\ pc' = "crc"
                /\ UNCHANGED <<parser, result>>
    /\ UNCHANGED <<input, base_locals, mid_locals, len_locals, walk_locals,
                   iter_vars, san_vars>>

\* validate headers CRC
ValidateCrc ==
    /\ pc = "crc"
    /\ IF header_crc # None /\ header_crc # sum16(parser.crc)
       THEN Return("wrong header CRC-16 checksum")
       ELSE pc' = "adjust" /\ UNCHANGED result
    /\ UNCHANGED <<input, parser, base_locals, mid_locals, len_locals, walk_locals,
                   iter_vars, san_vars>>

\* adjust compressed size for level 1; Ok(Some(LhaHeader { .. }))
AdjustSize ==
    /\ pc = "adjust"
    /\ IF raw_header.lha_level = 1
          /\ U64Less(compressed_size, U64(Len(extra_headers)))
       THEN /\ Return("wrong length of skip size")
            /\ UNCHANGED compressed_size
       ELSE /\ compressed_size' = IF raw_header.lha_level = 1
                                  THEN U64Sub(compressed_size,
                                              U64(Len(extra_headers)))
                                  ELSE compressed_size
            /\ Return("ok")
    /\ UNCHANGED <<input, parser, base_locals, mid_locals, len_locals,
                   extra_headers, msdos_attrs, original_size, header_crc,
                   extra_header_len, walked, iter_vars, san_vars>>

\* ------------------------------------------------------------------------
\* ExtraHeaderIter over an accepted header
\* ------------------------------------------------------------------------
\* pub fn iter_extra(&self) -> ExtraHeaderIter
iter_extra ==
    /\ pc = "done"
    /\ result = "ok"
    /\ iter_state = "none"
    /\ iter' = [data |-> extra_headers,
                header_length |-> first_header_len,
                header_len32 |-> raw_header.lha_level = 3]
    /\ iter_state' = "iterating"
    /\ UNCHANGED <<read_vars, yielded, san_vars>>

\* the width of a level 3 length field used at every level: a slip
counter_size_mut(header_len32) == 4

\* let counter_size = if self.header_len32 { 4 } else { 2 }
counter_size(header_len32) == IF header_len32 THEN 4 ELSE 2

\* fn next(&mut self) -> Option<&[u8]>
IterNext ==
    /\ iter_state = "iterating"
    /\ LET header_length == iter.header_length
           cs == counter_size(iter.header_len32)
       IN  IF header_length = 0
           THEN /\ iter_state' = "exhausted"
                /\ UNCHANGED <<iter, yielded>>
           ELSE IF header_length > Len(iter.data) \/ header_length < cs
           THEN \* split_at out of bounds
                /\ iter_state' = "panic"
                /\ UNCHANGED <<iter, yielded>>
           ELSE LET res == Take(iter.data, header_length)
                    data == Drop(iter.data, header_length)
                    len == Drop(res, header_length - cs)
                IN  /\ iter' = [iter EXCEPT !.data = data,
                                            !.header_length = LeValue(len)]
                    /\ yielded' = Append(yielded, Take(res, header_length - cs))
                    /\ UNCHANGED iter_state
    /\ UNCHANGED <<read_vars, san_vars>>

\* ------------------------------------------------------------------------
\* The byte sources read is run on: headers of every level with well-formed
\* and ill-formed lengths and checksums, the end markers, and truncations
\* ------------------------------------------------------------------------
RECURSIVE Pow256(_)
Pow256(n) == IF n = 0 THEN 1 ELSE 256 * Pow256(n - 1)

\* to_le_bytes of width w
Le(n, w) == [i \in 1..w |-> (n \div Pow256(i - 1)) % 256]

\* "-lh5-"
CompressionTag == <<45, 108, 104, 53, 45>>
FileCrcBytes == <<52, 18>>
\* what follows a header in the source: the first byte serves as padding byte
Trail == <<7, 0, 0, 0, 0, 0>>
\* a header of an empty file followed by the end of the archive
EndTrail == <<0>>

BaseBytes(level, csz) ==
    CompressionTag \o Le(csz, 4) \o <<2, 1, 0, 0>> \o <<1, 2, 3, 4>>
        \o <<32, level>>

\* an extra record is drawn by its identifier and payload length
Kinds ==
    {<<EXT_HEADER_COMMON, 2>>, <<EXT_HEADER_COMMON, 0>>,
     <<EXT_HEADER_MSDOS_ATTRS, 2>>, <<EXT_HEADER_FILENAME, 1>>,
     <<EXT_HEADER_MSDOS_SIZE, 16>>, <<EXT_HEADER_MSDOS_SIZE, 14>>}

Chains == UNION {[1..k -> Kinds] : k \in 0..MaxRecs}

Payload(kind) ==
    [i \in 1..kind[2] |-> IF i = 1 THEN 9 ELSE IF i = 9 THEN 5 ELSE 0]

RecLen(kind, width) == 1 + kind[2] + width

RECURSIVE ChainLen(_, _)
ChainLen(chain, width) ==
    IF chain = <<>> THEN 0
    ELSE RecLen(Head(chain), width) + ChainLen(Tail(chain), width)

RECURSIVE ChainBytes(_, _, _)
\* the records of a chain, each ending in the length of the next one
ChainBytes(chain, width, last_next) ==
    IF chain = <<>> THEN <<>>
    ELSE <<Head(chain)[1]>> \o Payload(Head(chain))
         \o Le(IF Len(chain) = 1 THEN last_next
               ELSE RecLen(chain[2], width), width)
         \o ChainBytes(Tail(chain), width, last_next)

FirstLen(chain, width) ==
    IF chain = <<>> THEN 0 ELSE RecLen(chain[1], width)

\* index of the first Common record of a chain, 0 if it has none
FirstCommon(chain) ==
    IF \E i \in 1..Len(chain) : chain[i][1] = EXT_HEADER_COMMON
    THEN CHOOSE i \in 1..Len(chain) :
            /\ chain[i][1] = EXT_HEADER_COMMON
            /\ \A j \in 1..(i - 1) : chain[j][1] # EXT_HEADER_COMMON
    ELSE 0

Patch16(bytes, at, v) ==
    [i \in 1..Len(bytes) |->
        IF i = at THEN v % 256 ELSE IF i = at + 1 THEN v \div 256 ELSE bytes[i]]

\* the source with the CRC-16 field of its first Common record filled in:
\* sel 0, the CRC-16 of the header; sel 1, of the header and a padding byte;
\* sel 2, a wrong value
WithCrc(tmpl, chain, width, base_end, sel) ==
    LET k == FirstCommon(chain) IN
    IF k = 0 THEN tmpl
    ELSE LET start == base_end + ChainLen(Take(chain, k - 1), width)
             zeroed == Patch16(tmpl, start + 2, 0)
             extent == (IF chain[k][2] < 2
                        THEN start + RecLen(chain[k], width)
                        ELSE base_end + ChainLen(chain, width))
                       + (IF sel = 1 THEN 1 ELSE 0)
             v == (sum16(Take(zeroed, extent)) + (IF sel = 2 THEN 1 ELSE 0)) % 65536
         IN  Patch16(zeroed, start + 2, v)

Names == {[i \in 1..k |-> 65] : k \in 0..MaxName}
Exts == {[i \in 1..k |-> 85] : k \in 0..MaxExt}

Level0Source(fname, ext, hl_delta, cs_delta, trail) ==
    LET body == BaseBytes(0, 4) \o <<Len(fname)>> \o fname \o FileCrcBytes \o ext
    IN  <<Len(body) + hl_delta, (SeqSum(body) + cs_delta) % 256>> \o body \o trail

Level1Source(fname, ext, chain, csz, hl_delta, cs_delta, sel, last_next) ==
    LET body == BaseBytes(1, csz) \o <<Len(fname)>> \o fname \o FileCrcBytes
                \o <<77>> \o ext \o Le(FirstLen(chain, 2), 2)
        tmpl == <<Len(body) + hl_delta, (SeqSum(body) + cs_delta) % 256>>
                \o body \o ChainBytes(chain, 2, last_next) \o Trail
    IN  WithCrc(tmpl, chain, 2, 2 + Len(body), sel)

Level2Source(chain, long_delta, sel, last_next) ==
    LET body == BaseBytes(2, 4) \o FileCrcBytes \o <<77>>
                \o Le(FirstLen(chain, 2), 2) \o ChainBytes(chain, 2, last_next)
        tmpl == Le(2 + Len(body) + long_delta, 2) \o body \o Trail
    IN  WithCrc(tmpl, chain, 2, 26, sel)

Level3Source(prolog, chain, long_delta, sel, last_next) ==
    LET recs == ChainBytes(chain, 4, last_next)
        tmpl == prolog \o BaseBytes(3, 4) \o FileCrcBytes \o <<77>>
                \o Le(32 + Len(recs) + long_delta, 4)
                \o Le(FirstLen(chain, 4), 4) \o recs \o Trail
    IN  WithCrc(tmpl, chain, 4, 32, sel)

Prefixes(s) == {Take(s, n) : n \in 0..(Len(s) - 1)}

Level0Sources ==
    {Level0Source(f, e, hd, cd, Trail) :
        f \in Names, e \in Exts, hd \in {-1, 0, 1}, cd \in {0, 1}}
    \cup {Level0Source(f, e, 0, 0, EndTrail) : f \in Names, e \in Exts}

Level1Sources ==
    {Level1Source(f, e, <<>>, 4, hd, cd, 0, 0) :
        f \in Names, e \in Exts, hd \in {-1, 0, 1}, cd \in {0, 1}}
    \cup
    {Level1Source(<<>>, <<>>, c, ChainLen(c, 2) + d, 0, 0, sel, ln) :
        c \in Chains \ {<<>>}, d \in {-1, 0, 4}, sel \in {0, 2}, ln \in {0, 2}}

Level2Sources ==
    {Level2Source(c, ld, sel, ln) :
        c \in Chains, ld \in -3..2, sel \in 0..2, ln \in {0, 2}}

Level3Sources ==
    {Level3Source(<<4, 0>>, c, ld, sel, ln) :
        c \in Chains, ld \in -1..1, sel \in {0, 2}, ln \in {0, 2}}
    \cup {Level3Source(p, <<>>, 0, 0, 0) : p \in {<<4, 1>>, <<5, 0>>}}

OtherSources ==
    {<<>>, <<0>>, <<0, 5>>, <<24, 0>> \o BaseBytes(4, 4) \o Trail}
    \cup Prefixes(Level0Source(<<65>>, <<85, 85>>, 0, 0, Trail))
    \cup Prefixes(Level1Source(<<65>>, <<85>>, <<<<EXT_HEADER_FILENAME, 1>>>>, 8, 0, 0, 0, 0))
    \cup Prefixes(Take(Level2Source(<<<<EXT_HEADER_COMMON, 2>>>>, 1, 1, 0), 31))
    \cup Prefixes(Level3Source(<<4, 0>>, <<<<EXT_HEADER_MSDOS_ATTRS, 2>>>>, 0, 0, 0))

Sources ==
    Level0Sources \cup Level1Sources \cup Level2Sources \cup Level3Sources
        \cup OtherSources

\* ------------------------------------------------------------------------
\* Specification of read and the iterator
\* ------------------------------------------------------------------------
SanIdle ==
    /\ san_data = <<>>
    /\ san_nilterm = FALSE
    /\ san_ignore_sep = FALSE
    /\ san_pc = "off"
    /\ san_str = <<>>
    /\ san_path = <<>>

ReadStart ==
    /\ parser = NewParser
    /\ result = "running"
    /\ header_len = 0
    /\ csum = 0
    /\ raw_header = DefaultRawHeader
    /\ filename = <<>>
    /\ file_crc = 0
    /\ os_type = 0
    /\ extended_area = <<>>
    /\ long_header_len = 0
    /\ first_header_len = 0
    /\ extra_headers = <<>>
    /\ msdos_attrs = 0
    /\ original_size = U64(0)
    /\ compressed_size = U64(0)
    /\ header_crc = None
    /\ extra_header_len = 0
    /\ walked = <<>>
    /\ iter = [data |-> <<>>, header_length |-> 0, header_len32 |-> FALSE]
    /\ yielded = <<>>
    /\ iter_state = "none"

Init ==
    /\ input \in Sources
    /\ pc = "header_len"
    /\ ReadStart
    /\ SanIdle

Next ==
    \/ ReadHeaderLen
    \/ ReadCsum
    \/ ReadBase
    \/ ReadFilename
    \/ ReadFileCrc
    \/ ReadExtendedArea
    \/ EstablishLengths
    \/ ValidateBase
    \/ WalkExtra
    \/ ValidateLongLen
    \/ ValidateCrc
    \/ AdjustSize
    \/ iter_extra
    \/ IterNext

Spec == Init /\ [][Next]_vars

\* ------------------------------------------------------------------------
\* The name and path sanitizers
\* ------------------------------------------------------------------------
\* std::path::is_separator(c as char), on a Unix target
is_separator(c) == c = 47

\* the closure of position(): c < 0x20 || c >= 0x7f || (!ignore_sep && is_separator)
NeedsRewrite(c, ignore_sep) ==
    c < 32 \/ c >= 127 \/ (~ignore_sep /\ is_separator(c))

\* data.iter().position(..): the 0-based index of the first byte to rewrite
position(data, ignore_sep) ==
    IF \E i \in 1..Len(data) : NeedsRewrite(data[i], ignore_sep)
    THEN (CHOOSE i \in 1..Len(data) :
            /\ NeedsRewrite(data[i], ignore_sep)
            /\ \A j \in 1..(i - 1) : ~NeedsRewrite(data[j], ignore_sep)) - 1
    ELSE None

\* one lowercase hexadecimal digit
HexDigit(n) == IF n < 10 THEN 48 + n ELSE 87 + n

\* write!(out, "%{:02x}", byte)
Escape(byte) == <<37, HexDigit(byte \div 16), HexDigit(byte % 16)>>

\* the terminator arm never taken: a slip
IsTerminator_mut(byte, nilterm) == FALSE

\* 0 if nilterm => break
IsTerminator(byte, nilterm) == byte = 0 /\ nilterm

RECURSIVE RewriteTail(_, _, _)
\* for byte in rest.iter() { match byte { .. } }
RewriteTail(rest, nilterm, ignore_sep) ==
    IF rest = <<>> THEN <<>>
    ELSE LET byte == Head(rest) IN
         IF IsTerminator(byte, nilterm) THEN <<>>
         ELSE (IF byte <= 31 \/ byte >= 127 THEN Escape(byte)
               ELSE IF ~ignore_sep /\ is_separator(byte) THEN <<95>>
               ELSE <<byte>>)
              \o RewriteTail(Tail(rest), nilterm, ignore_sep)

\* fn parse_str_nilterm(data, nilterm, ignore_sep) -> Cow<str>
parse_str_nilterm(data, nilterm, ignore_sep) ==
    LET index == position(data, ignore_sep) IN
    IF index # None
    THEN Take(data, index) \o RewriteTail(Drop(data, index), nilterm, ignore_sep)
    ELSE data

\* the closure of split(): c == 0xFF || c == b'/' || c == b'\\'
IsPathSplit(c) == c = 255 \/ c = 47 \/ c = 92

RECURSIVE Split(_)
\* data.split(..): the pieces between the separators, empty ones included
Split(data) ==
    IF \E i \in 1..Len(data) : IsPathSplit(data[i])
    THEN LET i == CHOOSE i \in 1..Len(data) :
                    /\ IsPathSplit(data[i])
                    /\ \A j \in 1..(i - 1) : ~IsPathSplit(data[j])
         IN  <<Take(data, i - 1)>> \o Split(Drop(data, i))
    ELSE <<data>>

\* the arm that lets ".." through: a slip
IsIgnoredPart_mut(part) == part \in {<<46>>, <<>>}

\* b"."|b".."|[] => {}
IsIgnoredPart(part) == part \in {<<46>>, <<46, 46>>, <<>>}

\* PathBuf::push on a Unix target: an absolute name replaces the path,
\* otherwise the name is appended after a separator
PathPush(path, name) ==
    IF name # <<>> /\ name[1] = 47 THEN name
    ELSE IF path # <<>> /\ path[Len(path)] # 47 THEN path \o <<47>> \o name
    ELSE path \o name

RECURSIVE PushParts(_, _)
\* for part in data.split(..) { match part { .. } }
PushParts(parts, path) ==
    IF parts = <<>> THEN path
    ELSE PushParts(Tail(parts),
                   IF IsIgnoredPart(Head(parts)) THEN path
                   ELSE PathPush(path, parse_str_nilterm(Head(parts), FALSE, FALSE)))

\* fn parse_pathname(data, path: &mut PathBuf)
parse_pathname(data, path) == PushParts(Split(data), path)

\* the byte strings the sanitizers are run on
SanAlphabet == {0, 1, 46, 47, 92, 65, 255}
SanInputs == UNION {[1..n -> SanAlphabet] : n \in 0..MaxStr}

ReadIdle ==
    /\ input = <<>>
    /\ pc = "off"
    /\ ReadStart

InitSan ==
    /\ ReadIdle
    /\ san_data \in SanInputs
    /\ san_nilterm \in BOOLEAN
    /\ san_ignore_sep \in BOOLEAN
    /\ san_pc = "init"
    /\ san_str = <<>>
    /\ san_path = <<>>

\* parse_str_nilterm(san_data, san_nilterm, san_ignore_sep)
CallParseStr ==
    /\ san_pc = "init"
    /\ san_pc' = "str"
    /\ san_str' = parse_str_nilterm(san_data, san_nilterm, san_ignore_sep)
    /\ UNCHANGED <<san_data, san_nilterm, san_ignore_sep, san_path, read_vars,
                   iter_vars>>

\* let mut path = PathBuf::new(); parse_pathname(san_data, &mut path)
CallParsePathname ==
    /\ san_pc = "init"
    /\ san_pc' = "path"
    /\ san_path' = parse_pathname(san_data, <<>>)
    /\ UNCHANGED <<san_data, san_nilterm, san_ignore_sep, san_str, read_vars,
                   iter_vars>>

NextSan == CallParseStr \/ CallParsePathname

SpecSan == InitSan /\ [][NextSan]_vars

\* ------------------------------------------------------------------------
\* What the claims speak of, read off the byte source
\* ------------------------------------------------------------------------
\* read returned Ok(Some(header))
Accepted == pc = "done" /\ result = "ok"

\* read got past the validation of the base header
PastBase == pc \in {"walk", "crc", "adjust"} \/ Accepted

\* the level tag of the source (byte 20)
SourceLevel == input[21]

\* number of bytes before the first extra record
BaseEnd ==
    CASE SourceLevel = 2 -> 26
      [] SourceLevel = 3 -> 32
      [] OTHER -> input[1] + 2

\* width of the length fields of the chain
FieldWidth == IF SourceLevel = 3 THEN 4 ELSE 2

\* offset in the source of the k-th record the walker read
WalkedOffset(k) == BaseEnd + SeqSum(Take(walked, k - 1))

\* identifier of the k-th record the walker read
WalkedId(k) == input[WalkedOffset(k) + 1]

CommonRecs == {k \in 1..Len(walked) : WalkedId(k) = EXT_HEADER_COMMON}

\* 1-based position in the source of offset 1 of the first Common record
CrcFieldAt ==
    WalkedOffset(CHOOSE k \in CommonRecs : \A j \in CommonRecs : k <= j) + 2

\* the 16-bit little-endian value the source stores at offsets 1..3 of it
StoredCrc == input[CrcFieldAt] + 256 * input[CrcFieldAt + 1]

\* the bytes consumed from the source, the two CRC-16 bytes replaced by zero
HeaderImage ==
    [i \in 1..parser.pos |->
        IF CommonRecs # {} /\ i \in {CrcFieldAt, CrcFieldAt + 1}
        THEN 0 ELSE input[i]]

\* the length field the chain starts from
FirstLenField == LeValue(SubSeq(input, BaseEnd - FieldWidth + 1, BaseEnd))

\* the trailing length field of the k-th record the walker read
NextLenField(k) ==
    LeValue(SubSeq(HeaderImage, WalkedOffset(k) + walked[k] - FieldWidth + 1,
                   WalkedOffset(k) + walked[k]))

\* the records the walker read are the chain the source holds
ChainLinked ==
    /\ FirstLenField = (IF walked = <<>> THEN 0 ELSE walked[1])
    /\ \A k \in 1..Len(walked) :
          NextLenField(k) = (IF k = Len(walked) THEN 0 ELSE walked[k + 1])

\* ------------------------------------------------------------------------
\* C1
\* ------------------------------------------------------------------------
\* C1: once a header with a Common record passes the CRC-16 validation, the
\* bytes fed to the digest are exactly the bytes consumed from the source with
\* only the two bytes at offsets 1..3 of the (single) Common record replaced by
\* zero, the padding byte included, and their CRC-16 is the value the source
\* stores at those offsets; read fails with "wrong header CRC-16 checksum"
\* exactly on a digest of that image whose CRC-16 differs from the stored value.
C1_HeaderCrc ==
    /\ ((Accepted \/ pc = "adjust") /\ CommonRecs # {}) =>
          /\ Cardinality(CommonRecs) = 1
          /\ parser.crc = HeaderImage
          /\ sum16(parser.crc) = StoredCrc
    /\ (pc = "done" /\ result = "wrong header CRC-16 checksum") =>
          /\ CommonRecs # {}
          /\ parser.crc = HeaderImage
          /\ sum16(parser.crc) # StoredCrc

\* an accepted level 2 header with a Common record, other records and a
\* padding byte
C1_Witness ==
    /\ Accepted
    /\ SourceLevel = 2
    /\ CommonRecs # {}
    /\ Len(walked) >= 2
    /\ StoredCrc # 0
    /\ parser.pos = BaseEnd + SeqSum(walked) + 1

\* ------------------------------------------------------------------------
\* C2
\* ------------------------------------------------------------------------
\* the sum modulo 256 of the source bytes at positions 2 .. header_length + 1
ByteSum == SeqSum(SubSeq(input, 3, input[1] + 2)) % 256

\* C2: a level 0 or 1 header gets past the checksum validation (and is
\* accepted) only if the sum modulo 256 of the source bytes at positions
\* 2 .. header_length+1 equals byte 1; read fails with "invalid header level
\* checksum" only when that sum differs, and then exactly header_length + 2
\* bytes were consumed and no extra header was read.
C2_ByteSum ==
    /\ (PastBase /\ SourceLevel < 2) => ByteSum = input[2]
    /\ (pc = "done" /\ result = "invalid header level checksum") =>
          /\ SourceLevel < 2
          /\ parser.pos = input[1] + 2
          /\ ByteSum # input[2]
          /\ extra_headers = <<>>
          /\ walked = <<>>

\* an accepted level 1 header with extra records, none of them in the sum
C2_Witness ==
    /\ Accepted
    /\ SourceLevel = 1
    /\ Len(walked) >= 2
    /\ ByteSum = input[2]
    /\ SeqSum(SubSeq(input, 3, parser.pos)) % 256 # input[2]

\* ------------------------------------------------------------------------
\* C3
\* ------------------------------------------------------------------------
\* C3: an accepted level 0 header consumed header_length + 2 bytes; an accepted
\* level 1 header consumed header_length + 2 bytes plus the lengths of the
\* records of its chain, the chain being the one the length fields of the
\* source link together.
C3_Consumed ==
    (Accepted /\ SourceLevel < 2) =>
        /\ IF SourceLevel = 0 THEN walked = <<>> ELSE ChainLinked
        /\ parser.pos = input[1] + 2 + SeqSum(walked)
        /\ parser.len = parser.pos

\* accepted headers of level 0 with an extended area, and of level 1 with
\* two extra records
C3_Witness ==
    /\ Accepted
    /\ \/ SourceLevel = 0 /\ extended_area # <<>>
       \/ SourceLevel = 1 /\ Len(walked) >= 2 /\ filename = <<>>
    /\ (SourceLevel = 0 => os_type = 85 /\ filename # <<>>)

\* ------------------------------------------------------------------------
\* C4
\* ------------------------------------------------------------------------
\* long_header_length of a level 2 source: the u16 of the two prolog bytes
Long2 == input[1] + 256 * input[2]

\* C4 as amended: a level 2 header that passes the long header length
\* validation has consumed long_header_length bytes (the padding byte, read
\* when the walk ended one byte short, included) or long_header_length + 2
\* bytes (Osk); "wrong length of headers" is the answer to every other relation
\* at the end of the walk.
C4_Level2Length ==
    /\ ((pc \in {"crc", "adjust"} \/ Accepted) /\ SourceLevel = 2) =>
          parser.pos \in {Long2, Long2 + 2}
    /\ (pc = "done" /\ result = "wrong length of headers") =>
          /\ SourceLevel = 2
          /\ parser.pos = BaseEnd + SeqSum(walked)
          /\ parser.pos \notin {Long2, Long2 - 1, Long2 + 2}

\* an accepted level 2 header whose long header length leaves the two
\* bytes of the length field out
C4_Witness ==
    /\ Accepted
    /\ SourceLevel = 2
    /\ parser.pos = Long2 + 2
    /\ Len(walked) >= 2

\* C4 as stated: an accepted level 2 header has consumed long_header_length,
\* long_header_length + 1 or long_header_length - 2 bytes.
C4_AsStated ==
    (Accepted /\ SourceLevel = 2) =>
        parser.pos \in {Long2, Long2 + 1, Long2 - 2}

\* ------------------------------------------------------------------------
\* C5
\* ------------------------------------------------------------------------
\* long_header_length of a level 3 source
Long3 == LeValue(SubSeq(input, 25, 28))

\* C5: every level 3 header that read accepts has consumed exactly
\* long_header_length bytes.
C5_Level3Length ==
    (Accepted /\ SourceLevel = 3) => parser.pos = Long3

\* ------------------------------------------------------------------------
\* C6
\* ------------------------------------------------------------------------
\* the MS-DOS Size records of the chain with at least 16 bytes between the
\* identifier and the trailing length field
SizeRecs ==
    {k \in 1..Len(walked) :
        /\ WalkedId(k) = EXT_HEADER_MSDOS_SIZE
        /\ walked[k] - 1 - FieldWidth >= 16}

LastSizeRec == CHOOSE k \in SizeRecs : \A j \in SizeRecs : j <= k

\* C6: an accepted level 2 or 3 header reports the 64-bit values at offsets
\* 1..9 and 9..17 of the last MS-DOS Size record with a payload of at least 16
\* bytes, and the widened 32-bit base fields if the chain has no such record.
C6_Sizes ==
    (Accepted /\ SourceLevel >= 2) =>
        IF SizeRecs # {}
        THEN /\ compressed_size =
                    read_u64(SubSeq(input, WalkedOffset(LastSizeRec) + 2,
                                    WalkedOffset(LastSizeRec) + 9))
             /\ original_size =
                    read_u64(SubSeq(input, WalkedOffset(LastSizeRec) + 10,
                                    WalkedOffset(LastSizeRec) + 17))
        ELSE /\ compressed_size = U64FromLe32(SubSeq(input, 8, 11))
             /\ original_size = U64FromLe32(SubSeq(input, 12, 15))

\* ------------------------------------------------------------------------
\* C7
\* ------------------------------------------------------------------------
\* C7: read returns the absent value exactly when the source is empty or its
\* first byte is 0, and then it has consumed that byte at most; a zero byte or
\* the end of the source anywhere later gives a header or an error.
C7_Absent ==
    pc = "done" =>
        /\ (result = "absent") <=> (input = <<>> \/ input[1] = 0)
        /\ result = "absent" => parser.pos = (IF input = <<>> THEN 0 ELSE 1)

\* the end marker met with more bytes behind it
C7_Witness ==
    /\ pc = "done"
    /\ result = "absent"
    /\ Len(input) > 1
    /\ parser.pos = 1

\* ------------------------------------------------------------------------
\* C9
\* ------------------------------------------------------------------------
\* the k-th record of the retained buffer, as the walker framed it
Retained(k) ==
    SubSeq(extra_headers, SeqSum(Take(walked, k - 1)) + 1, SeqSum(Take(walked, k)))

\* C9: iterating the extra headers of an accepted header never splits out of
\* bounds, yields slices of at least one byte, yields the records the walker
\* read, in order and without their length field, and ends when it has yielded
\* all of them and used up the retained buffer.
C9_IterExtra ==
    /\ iter_state # "panic"
    /\ Len(yielded) <= Len(walked)
    /\ \A k \in 1..Len(yielded) :
          /\ Len(yielded[k]) >= 1
          /\ yielded[k] = Take(Retained(k), walked[k] - FieldWidth)
    /\ iter_state = "exhausted" =>
          /\ Len(yielded) = Len(walked)
          /\ iter.data = <<>>
          /\ SeqSum(walked) = Len(extra_headers)

\* an exhausted iteration over a chain that holds a Common record whose
\* CRC-16 field was cleared
C9_Witness ==
    /\ iter_state = "exhausted"
    /\ Len(yielded) >= 2
    /\ CommonRecs # {}
    /\ StoredCrc # 0

\* ------------------------------------------------------------------------
\* C8
\* ------------------------------------------------------------------------
RECURSIVE SplitOn(_, _)
\* the pieces of data between occurrences of the byte c
SplitOn(data, c) ==
    IF \E i \in 1..Len(data) : data[i] = c
    THEN LET i == CHOOSE i \in 1..Len(data) :
                    data[i] = c /\ \A j \in 1..(i - 1) : data[j] # c
         IN  <<Take(data, i - 1)>> \o SplitOn(Drop(data, i), c)
    ELSE <<data>>

IsNamed(part) == part # <<>> /\ part # <<46>>

\* Path::components on a Unix target: the root if the path starts with a
\* separator, a leading ".", and the names between separators other than ""
\* and "."
PathComponents(path) ==
    LET parts == SplitOn(path, 47) IN
    (IF path # <<>> /\ path[1] = 47 THEN <<<<47>>>> ELSE <<>>)
    \o (IF parts[1] = <<46>> THEN <<<<46>>>> ELSE <<>>)
    \o SelectSeq(parts, IsNamed)

\* Path::is_relative on a Unix target
is_relative(path) == ~(path # <<>> /\ path[1] = 47)

\* the bytes the claim splits the input on: '/', '\' and 0xFF
PieceSeparators == {47, 92, 255}

RECURSIVE PiecesFrom(_, _)
\* the maximal runs of bytes other than separators that start at i or later
PiecesFrom(data, i) ==
    IF i > Len(data) THEN <<>>
    ELSE IF data[i] \notin PieceSeparators
            /\ (i = 1 \/ data[i - 1] \in PieceSeparators)
    THEN LET j == CHOOSE j \in i..Len(data) :
                    /\ \A k \in i..j : data[k] \notin PieceSeparators
                    /\ j = Len(data) \/ data[j + 1] \in PieceSeparators
         IN  <<SubSeq(data, i, j)>> \o PiecesFrom(data, j + 1)
    ELSE PiecesFrom(data, i + 1)

IsKeptPiece(piece) == piece \notin {<<46>>, <<46, 46>>}

\* the sanitized non-empty pieces of the input, "." and ".." left out
SanitizedPieces(data) ==
    LET kept == SelectSeq(PiecesFrom(data, 1), IsKeptPiece)
    IN  [k \in 1..Len(kept) |-> parse_str_nilterm(kept[k], FALSE, FALSE)]

\* C8: parse_pathname on an empty accumulator gives a relative path whose
\* components are, in input order, the sanitized non-empty pieces of the input
\* split on '/', '\' and 0xFF other than "." and ".."; none of them is "." or
\* "..", and none holds a platform separator.
C8_Pathname ==
    san_pc = "path" =>
        /\ is_relative(san_path)
        /\ PathComponents(san_path) = SanitizedPieces(san_data)
        /\ \A k \in 1..Len(PathComponents(san_path)) :
              LET c == PathComponents(san_path)[k] IN
              /\ c \notin {<<46>>, <<46, 46>>}
              /\ \A i \in 1..Len(c) : ~is_separator(c[i])

\* a path of a name behind a ".." piece and a separator of each kind
C8_Witness ==
    /\ san_pc = "path"
    /\ Len(san_data) >= 4
    /\ SubSeq(san_data, 1, 3) = <<46, 46, 92>>
    /\ PathComponents(san_path) # <<>>

\* ------------------------------------------------------------------------
\* C10
\* ------------------------------------------------------------------------
HasNul(data) == \E i \in 1..Len(data) : data[i] = 0

\* the 0-based index of the first 0x00 byte
FirstNul(data) ==
    (CHOOSE i \in 1..Len(data) :
        data[i] = 0 /\ \A j \in 1..(i - 1) : data[j] # 0) - 1

\* the bytes before the first 0x00 byte that are written as %xx
EscapedBeforeNul(data) ==
    {i \in 1..FirstNul(data) : data[i] < 32 \/ data[i] >= 127}

\* C10 as amended: with nilterm = true the string is made of the bytes before
\* the first 0x00 byte only, one character for each of them and two more for
\* each that is escaped as %xx, whatever ignore_separator is.
C10_NilTerm ==
    (san_pc = "str" /\ san_nilterm /\ HasNul(san_data)) =>
        Len(san_str) = FirstNul(san_data)
                         + 2 * Cardinality(EscapedBeforeNul(san_data))

\* a terminated string that is longer than the bytes it was made from
C10_Witness ==
    /\ san_pc = "str"
    /\ san_nilterm
    /\ HasNul(san_data)
    /\ FirstNul(san_data) >= 2
    /\ Len(san_str) > FirstNul(san_data)

\* C10 as stated: with nilterm = true the string is no longer than the index
\* of the first 0x00 byte.
C10_AsStated ==
    (san_pc = "str" /\ san_nilterm /\ HasNul(san_data)) =>
        Len(san_str) <= FirstNul(san_data)

\* ------------------------------------------------------------------------
\* C11
\* ------------------------------------------------------------------------
\* the Common records the walker read whose payload, the bytes between the
\* identifier and the trailing length field, is shorter than 2 bytes
ShortCommonRecs == {k \in CommonRecs : walked[k] - 1 - FieldWidth < 2}

\* the trailing length field of the k-th record as the source holds it
SourceNextLen(k) ==
    LeValue(SubSeq(input, WalkedOffset(k) + walked[k] - FieldWidth + 1,
                   WalkedOffset(k) + walked[k]))

\* C11: once the walker has read a Common record with a payload shorter than
\* 2 bytes, the expected header CRC-16 is unset, the record is retained as the
\* source holds it (no byte of its length field zeroed), and the walk goes on
\* with the next length the source holds in that field.
C11_ShortCommon ==
    \A k \in 1..Len(walked) :
        k \in ShortCommonRecs =>
            /\ header_crc = None
            /\ Retained(k) = SubSeq(input, WalkedOffset(k) + 1,
                                    WalkedOffset(k) + walked[k])
            /\ k < Len(walked) => walked[k + 1] = SourceNextLen(k)
            /\ (k = Len(walked) /\ pc = "walk") =>
                  extra_header_len = SourceNextLen(k)

\* ------------------------------------------------------------------------
\* C12
\* ------------------------------------------------------------------------
\* the 32-bit compressed size field of the base header of the source
BaseCompressed == LeValue(SubSeq(input, 8, 11))

\* C12: for level 1 the retained extra headers buffer is never longer than the
\* base compressed size, during the walk, at the size adjustment and in every
\* result; the compressed size is the widened base field until the adjustment;
\* read never fails with "wrong length of skip size"; an accepted level 1 header
\* reports the base compressed size less the lengths of the records of its
\* chain.
C12_SkipSize ==
    /\ result # "wrong length of skip size"
    /\ raw_header.lha_level = 1 =>
          /\ Len(extra_headers) <= BaseCompressed
          /\ pc \in {"walk", "crc", "adjust"} =>
                compressed_size = U64FromLe32(SubSeq(input, 8, 11))
    /\ (Accepted /\ SourceLevel = 1) =>
          /\ SeqSum(walked) = Len(extra_headers)
          /\ compressed_size = U64(BaseCompressed - SeqSum(walked))

\* an accepted level 1 header whose two or more extra records use up the
\* base compressed size
C12_Witness ==
    /\ Accepted
    /\ SourceLevel = 1
    /\ Len(walked) >= 2
    /\ Len(extra_headers) = BaseCompressed
    /\ compressed_size = U64(0)

====
